---- MODULE Spec2Model ----
(***************************************************************************)
(* A model of the AtomSpace Builder job ingestion service: the upload      *)
(* session store (app/core/session_manager.py), the job history store and  *)
(* selected-job pointer (app/services/graph_info_service.py), the job      *)
(* resolution helper (app/utils/helpers.py) and the HTTP handlers that     *)
(* drive them (app/api/*.py), with the former single-file service          *)
(* (app.py) as a second implementation of the load pipeline.               *)
(*                                                                         *)
(* The durable state is the base output directory: its entries (job        *)
(* directories, the uploads staging directory, history.json and            *)
(* selected_job.txt) in order of modification time, the content of the     *)
(* two files and what each directory holds.  The volatile state is the     *)
(* session dictionary and the request contexts: a handler runs from one    *)
(* suspension point (an await on the network) to the next in one step.     *)
(*                                                                         *)
(* The Neo4j connection manager (app/core/database.py) is modelled beside  *)
(* it, with its retry worker threads, the threads that call it and the     *)
(* backend; its methods run statement by statement where they touch the    *)
(* fields that the threads share (specification SpecDb).                   *)
(*                                                                         *)
(* The session store is also driven on its own: its operations in any      *)
(* order with the clock and the rounds of the sweep (SpecStore), and       *)
(* upload requests that overlap at "await file.read()" (SpecUpload).       *)
(*                                                                         *)
(* Handlers that overlap at the await on the notifier have their own       *)
(* specifications: submissions in every context with the background tasks  *)
(* (SpecLoad), and select_job with delete_job (SpecSelect).                *)
(***************************************************************************)
EXTENDS Integers, Sequences, FiniteSets, TLC

\* ------------------------------------------------------------------ bounds
\* Number of job ids ever issued (uuid4: fresh, never reused).
MaxJobs == 2
\* Number of upload session ids ever issued (token_urlsafe: fresh).
MaxSessions == 1
\* Upload sessions created in the specification of the session store.
MaxStoreSessions == 2
\* Request contexts that may be in flight at once.
MaxRequests == 2
\* Retry workers (threading.Thread objects) that may be alive at once.
MaxWorkers == 1
\* Threads that call into the Neo4jManager (the startup and request
\* handlers of the service all run on its one event-loop thread).
MaxCallers == 1
\* Neo4jManager.max_retries (30 in the source), scaled down.
max_retries == 2

\* ------------------------------------------------------------------ names
None == "None"

JobNames == <<"j1", "j2", "j3", "j4">>
SessionNames == <<"s1", "s2", "s3", "s4">>

JobIds == {JobNames[k] : k \in 1..MaxJobs}
SessionIds == {SessionNames[k] : k \in 1..MaxSessions}

\* File names a client may upload.
FileNames == {"a.csv"}
\* The session ids and file names of the specification of the session store.
StoreSessionIds == {SessionNames[k] : k \in 1..MaxStoreSessions}
StoreFileNames == {"a.csv", "b.csv"}

\* Entries of the base output directory that are no job directory.
UPLOADS == "uploads"
HISTORY_FILE == "history.json"
SELECTED_JOB_FILE == "selected_job.txt"
NonJobEntries == {UPLOADS, HISTORY_FILE, SELECTED_JOB_FILE}
EntryNames == JobIds \cup NonJobEntries

\* Writer types: NEO4J takes the database branch, every other one the same
\* branch as METTA.
METTA == "metta"
NEO4J == "neo4j"
WriterTypes == {METTA, NEO4J}

ACTIVE == "active"
EXPIRED == "expired"
CONSUMED == "consumed"

Requests == 1..MaxRequests

VARIABLES
    sessions,       \* SessionManager.sessions: id -> session record
    session_dirs,   \* staged storage: session id -> files in <base>/uploads/<id>
    issued_sessions,\* how many session ids were generated
    mtime_order,    \* entries of the base output directory, latest mtime first
    dir_files,      \* directory entry -> the files of interest it holds
    history,        \* the "history" list of history.json, most recent first
    selected_job,   \* content of selected_job.txt, None when the file is absent
    issued_jobs,    \* how many job ids were generated
    req,            \* request contexts
    manager,        \* core.database.neo4j_manager: the fields of Neo4jManager
    threads,        \* the threads that run Neo4jManager code: thread -> position
    reachable       \* whether the Neo4j backend accepts connections

vars == <<sessions, session_dirs, issued_sessions, mtime_order, dir_files,
          history, selected_job, issued_jobs, req, manager, threads, reachable>>

jobVars == <<sessions, session_dirs, issued_sessions, mtime_order, dir_files,
             history, selected_job, issued_jobs, req>>
dbVars == <<manager, threads, reachable>>

sessionVars == <<sessions, session_dirs, issued_sessions>>
storeVars == <<mtime_order, dir_files, history, selected_job>>

\* ------------------------------------------------------------ small helpers
Range(s) == {s[i] : i \in 1..Len(s)}

Drop(f, k) == [x \in DOMAIN f \ {k} |-> f[x]]

Put(f, k, v) == [x \in DOMAIN f \cup {k} |-> IF x = k THEN v ELSE f[x]]

Without(s, e) == SelectSeq(s, LAMBDA x : x # e)

\* A write to (or creation of) an entry gives it the latest mtime.
Touch(order, e) == <<e>> \o Without(order, e)

\* os.path.exists(os.path.join(base_output_dir, name))
path_exists(order, name) == name \in Range(order)

\* os.path.isdir(...): job directories and the uploads directory.
is_dir(files, name) == name \in DOMAIN files

\* A dictionary / directory with nothing in it.
EmptyMap == [x \in {} |-> None]

\* What a directory holds, as far as the handlers read it: graph_info.json.
EmptyDir == [graph_info |-> FALSE]


\* The durable and volatile stores as one value, so that the calls a handler
\* makes compose as functions.
World ==
    [sessions |-> sessions, session_dirs |-> session_dirs,
     mtime_order |-> mtime_order, dir_files |-> dir_files,
     history |-> history, selected_job |-> selected_job]

Commit(w) ==
    /\ sessions' = w.sessions
    /\ session_dirs' = w.session_dirs
    /\ mtime_order' = w.mtime_order
    /\ dir_files' = w.dir_files
    /\ history' = w.history
    /\ selected_job' = w.selected_job
    /\ UNCHANGED dbVars

\* ------------------------------------------------- file system primitives
\* shutil.rmtree on an entry of the base output directory: the uploads
\* directory takes every session directory with it.
rmtree(w, name) ==
    [w EXCEPT !.mtime_order = Without(@, name),
              !.dir_files = Drop(@, name),
              !.session_dirs = IF name = UPLOADS THEN EmptyMap ELSE @]

\* os.makedirs(<base>/<name>, exist_ok=True)
makedirs(w, name) ==
    IF is_dir(w.dir_files, name) THEN w
    ELSE [w EXCEPT !.dir_files = Put(@, name, EmptyDir),
                   !.mtime_order = Touch(@, name)]

\* ---------------------------------------------------------- SessionManager
NewSession == [status |-> ACTIVE, uploaded_files |-> <<>>, past_expiry |-> FALSE]

\* create_session: a dictionary entry and a directory <base>/uploads/<id>.
create_session(w, sid) ==
    LET w1 == makedirs(w, UPLOADS) IN
    [w1 EXCEPT !.sessions = Put(@, sid, NewSession),
               !.session_dirs = Put(@, sid, {}),
               !.mtime_order = Touch(@, UPLOADS)]

\* A faulty get_session: the expiry is not looked at.
get_session_result_no_expiry(ss, sid) ==
    IF sid \notin DOMAIN ss THEN None ELSE sid

\* get_session: the id when known and not past its expiry, else None.
get_session_result(ss, sid) ==
    IF sid \notin DOMAIN ss THEN None
    ELSE IF ~ss[sid].past_expiry THEN sid
    ELSE None

\* A faulty get_session: nothing is marked.
get_session_effect_none(ss, sid) == ss

\* get_session: a known session past its expiry is marked expired.
get_session_effect(ss, sid) ==
    IF sid \in DOMAIN ss /\ ss[sid].past_expiry
    THEN [ss EXCEPT ![sid].status = EXPIRED]
    ELSE ss

\* A faulty add_file_to_session: the name is appended without the test of
\* line 58.
add_file_to_session_appends(ss, sid, filename) ==
    LET s1 == get_session_effect(ss, sid) IN
    IF get_session_result(ss, sid) = None THEN s1
    ELSE [s1 EXCEPT ![sid].uploaded_files = Append(@, filename)]

\* add_file_to_session, lines 52-61: a name already in the list is left
\* alone, and nothing is reported.
add_file_to_session(ss, sid, filename) ==
    LET s1 == get_session_effect(ss, sid) IN
    IF get_session_result(ss, sid) = None THEN s1
    ELSE IF filename \in Range(s1[sid].uploaded_files) THEN s1
    ELSE [s1 EXCEPT ![sid].uploaded_files = Append(@, filename)]

consume_session(ss, sid) ==
    LET s1 == get_session_effect(ss, sid) IN
    IF get_session_result(ss, sid) = None THEN s1
    ELSE [s1 EXCEPT ![sid].status = CONSUMED]

\* A faulty cleanup_session: the dictionary entry goes, the directory stays.
cleanup_session_keeps_dir(w, sid) ==
    [w EXCEPT !.sessions = Drop(@, sid)]

\* cleanup_session: the session directory and the dictionary entry go.
cleanup_session(w, sid) ==
    LET w1 == IF sid \in DOMAIN w.session_dirs
              THEN [w EXCEPT !.session_dirs = Drop(@, sid),
                             !.mtime_order = Touch(@, UPLOADS)]
              ELSE w
    IN [w1 EXCEPT !.sessions = Drop(@, sid)]

\* A faulty choice: every session past its expiry, whatever its status.
expired_sessions_any_status(ss) ==
    {sid \in DOMAIN ss : ss[sid].past_expiry}

\* The sessions cleanup_expired_sessions picks.
expired_sessions(ss) ==
    {sid \in DOMAIN ss : ss[sid].past_expiry /\ ss[sid].status = ACTIVE}

RECURSIVE cleanup_each(_, _)
cleanup_each(w, sids) ==
    IF sids = {} THEN w
    ELSE LET sid == CHOOSE x \in sids : TRUE IN
         cleanup_each(cleanup_session(w, sid), sids \ {sid})

cleanup_expired_sessions(w) == cleanup_each(w, expired_sessions(w.sessions))

\* The number cleanup_expired_sessions returns (line 112).
cleanup_expired_count(ss) == Cardinality(expired_sessions(ss))

\* ------------------------------------------------------- GraphInfoService
\* get_history: the stored list, the empty skeleton when there is no file.
get_history(w) == w.history

\* save_json_file(history_file, history)
save_history(w, h) ==
    [w EXCEPT !.history = h, !.mtime_order = Touch(@, HISTORY_FILE)]

\* A history record (a GraphInfo), reduced to the job it describes.
HistoryRecord(job_id) == [job_id |-> job_id]

\* A faulty save_graph_info: the record is appended to the history list.
save_graph_info_appends(w, job_id, graph_info) ==
    LET w1 == save_history(w, get_history(w) \o <<graph_info>>)
        w2 == makedirs(w1, job_id)
    IN  IF w2.dir_files[job_id].graph_info THEN w2
        ELSE [w2 EXCEPT !.dir_files[job_id].graph_info = TRUE,
                        !.mtime_order = Touch(@, job_id)]

\* save_graph_info: the record is prepended to the history list; then
\* graph_info.json is written into the job's directory (save_json_file
\* creates the directory when it is missing).
save_graph_info(w, job_id, graph_info) ==
    LET w1 == save_history(w, <<graph_info>> \o get_history(w))
        w2 == makedirs(w1, job_id)
    IN  IF w2.dir_files[job_id].graph_info THEN w2
        ELSE [w2 EXCEPT !.dir_files[job_id].graph_info = TRUE,
                        !.mtime_order = Touch(@, job_id)]

get_selected_job_id(w) == w.selected_job

save_selected_job_id(w, job_id) ==
    [w EXCEPT !.selected_job = job_id,
              !.mtime_order = Touch(@, SELECTED_JOB_FILE)]

\* os.remove(selected_job_file) when it exists
remove_selected_job_file(w) ==
    [w EXCEPT !.selected_job = None,
              !.mtime_order = Without(@, SELECTED_JOB_FILE)]

\* helpers.get_writer_type_from_job raises (a 500) when the entry is a regular
\* file: opening <file>/job_metadata.json is no FileNotFoundError.  For a
\* directory or a missing entry it returns the stored type or "metta".
writer_type_raises(w, job_id) ==
    path_exists(w.mtime_order, job_id) /\ ~is_dir(w.dir_files, job_id)

RECURSIVE rmtree_each(_, _)
rmtree_each(w, names) ==
    IF names = {} THEN w
    ELSE LET n == CHOOSE x \in names : TRUE IN
         rmtree_each(rmtree(w, n), names \ {n})

\* clear_history: empty skeleton, pointer file removed, every directory of
\* the base output directory removed.
clear_history_keeps_pointer(w) ==
    rmtree_each(save_history(w, <<>>), DOMAIN w.dir_files)

clear_history(w) ==
    LET w1 == save_history(w, <<>>)
        w2 == IF w1.selected_job # None THEN remove_selected_job_file(w1) ELSE w1
    IN  rmtree_each(w2, DOMAIN w2.dir_files)

\* delete_job_history: <<world, selected_job_affected>>
delete_job_history(w, job_id) ==
    LET affected == get_selected_job_id(w) = job_id
        w1 == IF affected THEN remove_selected_job_file(w) ELSE w
        kept == SelectSeq(get_history(w), LAMBDA item : item.job_id # job_id)
        w2 == IF Len(kept) # Len(get_history(w)) \/ affected
              THEN save_history(w1, kept) ELSE w1
    IN  [w |-> w2, selected_job_affected |-> affected]

\* ------------------------------------------------------------ utils.helpers
\* get_latest_directory: the most recently modified entry of the base dir.
get_latest_directory(w) ==
    IF w.mtime_order = <<>> THEN None ELSE w.mtime_order[1]

\* get_job_id_to_use: provided -> selected -> latest.
get_job_id_to_use(w, job_id) ==
    IF job_id # None /\ path_exists(w.mtime_order, job_id) THEN job_id
    ELSE LET selected_id == get_selected_job_id(w) IN
         IF selected_id # None /\ path_exists(w.mtime_order, selected_id)
         THEN selected_id
         ELSE get_latest_directory(w)


\* ------------------------------------------------------ request contexts
NoWorld ==
    [sessions |-> EmptyMap, session_dirs |-> EmptyMap, mtime_order |-> <<>>,
     dir_files |-> EmptyMap, history |-> <<>>, selected_job |-> None]

\* op: the handler; pc: where it is suspended; status_code: the HTTP status
\* of the response (0: none yet); reply: the job id the response reports;
\* stage: the pipeline stage that failed; calls: the collaborators invoked;
\* loader, neo4j, notifier, io: what the loader did, what the database sync
\* returned, what the notifier answered for the new job and which write of
\* the finalize step failed; fallback: the job id re-notified after a
\* notifier error; new_job_id: the head of history delete_job selects;
\* selected_job_affected, directory_deleted: the fields of that name of the
\* DeleteJobResponse; pre: the stores when a submission, a clear_history or
\* a call of the session store began (observer); files: the files of an
\* upload request not yet stored, the first one being read; detached, seen:
\* the handler's session object is no longer the store's entry, and the
\* file list it still holds; count: the number a store call returned;
\* graph_data: the graph database holds nodes and relationships tagged with
\* the job id of this submission (observer).
IdleReq ==
    [op |-> None, pc |-> "idle", session_id |-> None, writer_type |-> None,
     job_id |-> None, status_code |-> 0, reply |-> None, stage |-> None,
     calls |-> {}, loader |-> None, neo4j |-> None, notifier |-> None,
     io |-> None, fallback |-> None, new_job_id |-> None,
     selected_job_affected |-> FALSE, directory_deleted |-> FALSE,
     files |-> <<>>, detached |-> FALSE, seen |-> <<>>, count |-> 0,
     graph_data |-> FALSE, pre |-> NoWorld]

NewReq(op, w) == [IdleReq EXCEPT !.op = op, !.pc = "running", !.pre = w]

Finish(r, code, stage) ==
    [r EXCEPT !.pc = "done", !.status_code = code, !.stage = stage]

InFlight(r) == r.pc \notin {"idle", "done"}

Idle(r) == r.pc = "idle"

\* ------------------------------------------------ external collaborators
\* What the loader subprocess can do: exit code and whether it left files.
LoaderOutcomes == {"ok", "exit_nonzero", "no_output"}

\* What the database sync can meet: the connection manager's answer, the
\* CSV files generated, the copy to the shared volume, the Cypher run.
Neo4jOk == [connected |-> TRUE, csv_found |-> TRUE, copy_ok |-> TRUE, cypher |-> "ok"]

Neo4jScenarios ==
    {Neo4jOk,
     [Neo4jOk EXCEPT !.connected = FALSE],
     [Neo4jOk EXCEPT !.csv_found = FALSE],
     [Neo4jOk EXCEPT !.copy_ok = FALSE],
     [Neo4jOk EXCEPT !.cypher = "not_initialized"],
     [Neo4jOk EXCEPT !.cypher = "error"]}

\* Neo4jService.load_data_to_neo4j: "success" or "error" is the status of
\* the returned Neo4jLoadResult, "raise" an exception leaving the call.
load_data_to_neo4j(scn) ==
    IF ~scn.connected THEN "error"
    ELSE IF ~scn.csv_found THEN "error"
    ELSE IF ~scn.copy_ok THEN "raise"
    ELSE IF scn.cypher = "not_initialized" THEN "error"
    ELSE IF scn.cypher = "error" THEN "raise"
    ELSE "success"

\* app.py load_data_to_neo4j: every exception becomes an error result.
app_load_data_to_neo4j(scn) ==
    IF ~scn.connected THEN "error"
    ELSE IF ~scn.csv_found \/ ~scn.copy_ok THEN "error"
    ELSE IF scn.cypher # "ok" THEN "error"
    ELSE "success"

\* The inputs of one submission besides the session: the writer type,
\* whether config and schema parse as JSON, what the loader does and, for
\* the neo4j writer, what the database sync meets.  Inputs a run never
\* reads are fixed (the loader after a JSON error, the database for metta).
LoadInput(wt, j, l, n) == [writer_type |-> wt, json_ok |-> j, loader |-> l, neo4j |-> n]

LoadInputs ==
    {LoadInput(wt, FALSE, "ok", Neo4jOk) : wt \in WriterTypes}
    \cup {LoadInput(wt, TRUE, l, Neo4jOk) : wt \in WriterTypes, l \in LoaderOutcomes}
    \cup {LoadInput(NEO4J, TRUE, "ok", n) : n \in Neo4jScenarios}

\* The loader stage of the pipeline (hugegraph_service.process_data): on
\* exit code 0 with output files the job directory holds the artifacts,
\* schema.json and job_metadata.json; otherwise any directory created is
\* deleted and the stage fails.
process_data(w, job_id, writer_type, loader) ==
    LET w1 == makedirs(w, job_id) IN
    IF loader = "ok"
    THEN [ok |-> TRUE, w |-> [w1 EXCEPT !.mtime_order = Touch(@, job_id)]]
    ELSE [ok |-> FALSE, w |-> rmtree(w1, job_id)]

\* A faulty loader stage: the directory of a failed run is left behind.
app_run_loader_keeps_dir(w, job_id, writer_type, loader) ==
    LET w1 == makedirs(w, job_id) IN
    IF loader = "ok"
    THEN [ok |-> TRUE, w |-> [w1 EXCEPT !.mtime_order = Touch(@, job_id)]]
    ELSE [ok |-> FALSE, w |-> w1]

\* app.py load_data, lines 794-838: the same stage, in line.  The loader
\* writes into the output directory it is given; after a nonzero exit or
\* with no output file the directory is removed, otherwise schema.json and
\* job_metadata.json are added to it.
app_run_loader(w, job_id, writer_type, loader) ==
    LET w1 == makedirs(w, job_id) IN
    IF loader = "ok"
    THEN [ok |-> TRUE, w |-> [w1 EXCEPT !.mtime_order = Touch(@, job_id)]]
    ELSE [ok |-> FALSE,
          w |-> IF path_exists(w1.mtime_order, job_id) THEN rmtree(w1, job_id) ELSE w1]

\* json.dump(neo4j_load_result) into the job directory: a new file there.
save_neo4j_load_result(w, job_id, result) ==
    [w EXCEPT !.mtime_order = Touch(@, job_id)]

\* ------------------------------------------------ api/jobs.py load_data
\* Lines 36-73: from entry to the await on the annotation notifier.
load_data_enter(w, r0, sid, inp, job_id) ==
    LET writer_type == inp.writer_type
        session == get_session_result(w.sessions, sid)
        w1 == [w EXCEPT !.sessions = get_session_effect(@, sid)]
        r1 == [r0 EXCEPT !.session_id = sid, !.writer_type = writer_type]
    IN
    IF session = None THEN [w |-> w1, r |-> Finish(r1, 400, "session"), issued |-> 0]
    ELSE IF w1.sessions[sid].uploaded_files = <<>>
    THEN [w |-> w1, r |-> Finish(r1, 400, "session"), issued |-> 0]
    ELSE IF ~inp.json_ok THEN [w |-> w1, r |-> Finish(r1, 400, "json"), issued |-> 0]
    ELSE
    LET pd == process_data(w1, job_id, writer_type, inp.loader)
        r2 == [r1 EXCEPT !.job_id = job_id, !.calls = {"loader"}, !.loader = inp.loader]
    IN
    IF ~pd.ok THEN [w |-> pd.w, r |-> Finish(r2, 500, "loader"), issued |-> 1]
    ELSE IF writer_type # NEO4J
    THEN [w |-> pd.w, r |-> [r2 EXCEPT !.pc = "notify"], issued |-> 1]
    ELSE
    LET result == load_data_to_neo4j(inp.neo4j)
        r3 == [r2 EXCEPT !.calls = @ \cup {"neo4j"}, !.neo4j = result,
                         !.graph_data = (result = "success")]
    IN
    IF result = "raise" THEN [w |-> pd.w, r |-> Finish(r3, 500, "neo4j"), issued |-> 1]
    ELSE [w |-> save_neo4j_load_result(pd.w, job_id, result),
          r |-> [r3 EXCEPT !.pc = "notify"], issued |-> 1]

\* Lines 85-101: graph info, history record, pointer, session consumed.
\* io names the write that fails, if any: "history" or "graph_info" (that
\* save_json_file raises), "pointer" (save_selected_job_id logs the error
\* and goes on); "ok" when every write succeeds.
load_data_finalize(w, r0, io) ==
    LET r == [r0 EXCEPT !.io = io]
        w1 == save_graph_info(w, r.job_id, HistoryRecord(r.job_id)) IN
    IF io = "history" THEN [w |-> w, r |-> Finish(r, 500, "history")]
    ELSE IF io = "graph_info"
    THEN [w |-> save_history(w, w1.history), r |-> Finish(r, 500, "history")]
    ELSE
    LET
        w2 == IF io = "pointer" THEN w1 ELSE save_selected_job_id(w1, r.job_id)
        w3 == [w2 EXCEPT !.sessions = consume_session(@, r.session_id)]
        w4 == cleanup_session(w3, r.session_id)
    IN [w |-> w4, r |-> [Finish(r, 200, None) EXCEPT !.reply = r.job_id]]

\* A faulty rollback: the failed job's directory is left behind.
load_data_rollback_keeps_dir(w, r) ==
    [w |-> w, r |-> Finish(r, 500, "notifier")]

\* Lines 80-83 and 105-106: the failed job's directory is removed and the
\* notifier's error surfaces as a 500; the graph database is not called.
load_data_rollback(w, r) ==
    [w |-> IF path_exists(w.mtime_order, r.job_id) THEN rmtree(w, r.job_id) ELSE w,
     r |-> Finish(r, 500, "notifier")]

\* Lines 73-101: the notifier's answer for the new job has arrived.
load_data_notified(w, r0, notify_ok, io) ==
    LET r == [r0 EXCEPT !.calls = @ \cup {"notifier"},
                        !.notifier = IF notify_ok THEN "ok" ELSE "error"] IN
    IF notify_ok THEN load_data_finalize(w, r, io)
    ELSE LET selected_job_id == get_job_id_to_use(w, None) IN
         IF selected_job_id # None
         THEN [w |-> w, r |-> [r EXCEPT !.pc = "fallback", !.fallback = selected_job_id]]
         ELSE load_data_rollback(w, r)


\* ------------------------------------------------------ app.py load_data
\* The single-file service's pipeline, lines 747-887; it takes the files
\* with the request and has no upload session.
app_load_data(w, r0, inp, notify_ok, job_id) ==
    LET writer_type == inp.writer_type
        r1 == [r0 EXCEPT !.writer_type = writer_type, !.job_id = job_id] IN
    IF ~inp.json_ok THEN [w |-> w, r |-> Finish(r1, 400, "json")]
    ELSE
    LET pd == app_run_loader(w, job_id, writer_type, inp.loader)
        r2 == [r1 EXCEPT !.calls = {"loader"}, !.loader = inp.loader]
    IN
    IF ~pd.ok THEN [w |-> pd.w, r |-> Finish(r2, 500, "loader")]
    ELSE
    LET w1 == IF writer_type = NEO4J
              THEN save_neo4j_load_result(pd.w, job_id, app_load_data_to_neo4j(inp.neo4j))
              ELSE pd.w
        r3 == [r2 EXCEPT !.calls = @ \cup (IF writer_type = NEO4J THEN {"neo4j"} ELSE {})
                                   \cup {"notifier"},
                         !.neo4j = IF writer_type = NEO4J
                                   THEN app_load_data_to_neo4j(inp.neo4j) ELSE None,
                         !.notifier = IF notify_ok THEN "ok" ELSE "error",
                         !.io = IF notify_ok THEN "ok" ELSE None]
    IN
    IF ~notify_ok
    THEN [w |-> rmtree(w1, job_id),
          r |-> [Finish(r3, 500, "notifier") EXCEPT !.fallback = get_selected_job_id(w1)]]
    ELSE
    LET w2 == save_graph_info(w1, job_id, HistoryRecord(job_id))
        w3 == save_selected_job_id(w2, job_id)
    IN [w |-> w3, r |-> [Finish(r3, 200, None) EXCEPT !.reply = job_id]]

\* ------------------------------------------------- api/upload.py handlers
\* upload_files, the loop over the request's files: a name already in the
\* session ends the request with 400, a failed write with 500.
RECURSIVE upload_each(_, _, _)
upload_each(w, sid, files) ==
    IF files = <<>> THEN [w |-> w, code |-> 200]
    ELSE LET f == Head(files) IN
         IF f \in Range(w.sessions[sid].uploaded_files) THEN [w |-> w, code |-> 400]
         ELSE IF sid \notin DOMAIN w.session_dirs THEN [w |-> w, code |-> 500]
         ELSE upload_each([w EXCEPT !.session_dirs[sid] = @ \cup {f},
                                    !.sessions = add_file_to_session(@, sid, f)],
                          sid, Tail(files))

upload_files(w, r0, sid, files) ==
    LET session == get_session_result(w.sessions, sid)
        w1 == [w EXCEPT !.sessions = get_session_effect(@, sid)]
        r1 == [r0 EXCEPT !.session_id = sid]
    IN IF session = None THEN [w |-> w1, r |-> Finish(r1, 404, "session")]
       ELSE LET out == upload_each(w1, sid, files) IN
            [w |-> out.w, r |-> Finish(r1, out.code, None)]

\* remove_file_from_session: the list entry and the stored file.
remove_file_from_session(w, sid, filename) ==
    LET i == CHOOSE k \in 1..Len(w.sessions[sid].uploaded_files) :
                 /\ w.sessions[sid].uploaded_files[k] = filename
                 /\ \A m \in 1..(k-1) : w.sessions[sid].uploaded_files[m] # filename
        fs == w.sessions[sid].uploaded_files
    IN [w EXCEPT !.sessions[sid].uploaded_files = SubSeq(fs, 1, i-1) \o SubSeq(fs, i+1, Len(fs)),
                 !.session_dirs = IF sid \in DOMAIN @ THEN [@ EXCEPT ![sid] = @ \ {filename}] ELSE @]

delete_uploaded_file(w, r0, sid, filename) ==
    LET session == get_session_result(w.sessions, sid)
        w1 == [w EXCEPT !.sessions = get_session_effect(@, sid)]
        r1 == [r0 EXCEPT !.session_id = sid]
    IN IF session = None THEN [w |-> w1, r |-> Finish(r1, 404, "session")]
       ELSE IF filename \notin Range(w1.sessions[sid].uploaded_files)
       THEN [w |-> w1, r |-> Finish(r1, 404, "file")]
       ELSE [w |-> remove_file_from_session(w1, sid, filename), r |-> Finish(r1, 200, None)]

\* upload_files with its suspension point. The file list of the handler's
\* session object: the store's entry, or what the object held when
\* cleanup_session removed it from the store.
session_files(w, r) ==
    IF r.detached THEN r.seen ELSE w.sessions[r.session_id].uploaded_files

\* upload_files, lines 49-61: the loop up to "await file.read()", or its end
\* and the response (lines 80-89).
upload_next(w, r) ==
    IF r.files = <<>> THEN [w |-> w, r |-> Finish(r, 200, None)]
    ELSE LET f == Head(r.files) IN
         IF f \in Range(session_files(w, r)) THEN [w |-> w, r |-> Finish(r, 400, "duplicate")]
         ELSE IF r.session_id \notin DOMAIN w.session_dirs
         THEN [w |-> w, r |-> Finish(r, 500, "write")]
         ELSE [w |-> [w EXCEPT !.session_dirs[r.session_id] = @ \cup {f}],
               r |-> [r EXCEPT !.pc = "read"]]

\* upload_files, lines 39-41, then the loop.
upload_begin(w, r0, sid, files) ==
    LET session == get_session_result(w.sessions, sid)
        w1 == [w EXCEPT !.sessions = get_session_effect(@, sid)]
        r1 == [r0 EXCEPT !.session_id = sid, !.files = files]
    IN IF session = None THEN [w |-> w1, r |-> Finish(r1, 404, "session")]
       ELSE upload_next(w1, r1)

\* upload_files, lines 62-72: the content has been read; it is written, the
\* name is added to the session (the result of add_file_to_session is not
\* looked at) and the loop goes on with the next file.
upload_resume(w, r) ==
    LET f == Head(r.files)
        w1 == [w EXCEPT !.sessions = add_file_to_session(@, r.session_id, f)]
    IN upload_next(w1, [r EXCEPT !.files = Tail(@)])

\* cleanup_session removes entries from the store: the handlers suspended in
\* upload_files keep their session objects.
detach(rq, w, w2) ==
    [p \in DOMAIN rq |->
        IF /\ rq[p].op = "upload_files" /\ rq[p].pc = "read" /\ ~rq[p].detached
           /\ rq[p].session_id \in DOMAIN w.sessions
           /\ rq[p].session_id \notin DOMAIN w2.sessions
        THEN [rq[p] EXCEPT !.detached = TRUE,
                           !.seen = w.sessions[rq[p].session_id].uploaded_files]
        ELSE rq[p]]

\* --------------------------------------------------- api/jobs.py handlers
EMPTY == ""

\* select_job, lines 112-118: to the await on the notifier.
select_job_enter(w, r0, job_id) ==
    LET r1 == [r0 EXCEPT !.job_id = job_id] IN
    IF writer_type_raises(w, job_id) THEN [w |-> w, r |-> Finish(r1, 500, "metadata")]
    ELSE IF ~path_exists(w.mtime_order, job_id) THEN [w |-> w, r |-> Finish(r1, 404, "job")]
    ELSE [w |-> w, r |-> [r1 EXCEPT !.pc = "notify"]]

\* select_job, lines 118-123: the notifier has answered.
select_job_notified(w, r, notify_ok) ==
    IF ~notify_ok THEN [w |-> w, r |-> Finish(r, 500, "notifier")]
    ELSE [w |-> save_selected_job_id(w, r.job_id), r |-> Finish(r, 200, None)]

\* delete_job, lines 210-228: the response reports get_job_id_to_use().
delete_job_respond(w, r) ==
    LET job_id == get_job_id_to_use(w, None) IN
    [w |-> w, r |-> [Finish(r, 200, None) EXCEPT !.reply = IF job_id = None THEN EMPTY ELSE job_id]]

\* delete_job, lines 179-204: history and directory removed; when the
\* selected job went and history has a head, select_job(head) is awaited.
delete_job_enter(w, r0, job_id) ==
    LET r1 == [r0 EXCEPT !.job_id = job_id] IN
    IF writer_type_raises(w, job_id) THEN [w |-> w, r |-> Finish(r1, 500, "metadata")]
    ELSE
    LET dj == delete_job_history(w, job_id)
        w1 == IF path_exists(dj.w.mtime_order, job_id) THEN rmtree(dj.w, job_id) ELSE dj.w
        r2 == [r1 EXCEPT !.selected_job_affected = dj.selected_job_affected,
                         !.directory_deleted = path_exists(dj.w.mtime_order, job_id)]
    IN
    IF dj.selected_job_affected /\ w1.history # <<>>
    THEN LET new_job_id == w1.history[1].job_id IN
         IF writer_type_raises(w1, new_job_id) \/ ~path_exists(w1.mtime_order, new_job_id)
         THEN delete_job_respond(w1, r2)
         ELSE [w |-> w1, r |-> [r2 EXCEPT !.pc = "notify", !.new_job_id = new_job_id]]
    ELSE delete_job_respond(w1, r2)

\* delete_job, lines 204-228: the nested select_job's notifier has answered.
delete_job_notified_unsaved(w, r, notify_ok) ==
    delete_job_respond(w, [r EXCEPT !.notifier = IF notify_ok THEN "ok" ELSE "error"])

delete_job_notified(w, r, notify_ok) ==
    delete_job_respond(IF notify_ok THEN save_selected_job_id(w, r.new_job_id) ELSE w,
                       [r EXCEPT !.notifier = IF notify_ok THEN "ok" ELSE "error"])

\* get_history, lines 126-132
get_history_endpoint(w, r0) ==
    LET job_id == get_job_id_to_use(w, None) IN
    [w |-> w, r |-> [Finish(r0, 200, None) EXCEPT !.reply = IF job_id = None THEN EMPTY ELSE job_id]]

\* api/graph.py get_graph_info: the stored graph info of the resolved job,
\* generated and saved when there is none; the empty response on any error.
get_graph_info_endpoint(w, r0, requested) ==
    LET job_id == get_job_id_to_use(w, requested)
        empty_response == [w |-> w, r |-> [Finish(r0, 200, None) EXCEPT !.reply = EMPTY]]
    IN
    IF job_id = None THEN empty_response
    ELSE IF ~is_dir(w.dir_files, job_id) THEN empty_response
    ELSE IF w.dir_files[job_id].graph_info
    THEN [w |-> w, r |-> [Finish(r0, 200, None) EXCEPT !.reply = job_id]]
    ELSE [w |-> save_graph_info(w, job_id, HistoryRecord(job_id)),
          r |-> [Finish(r0, 200, None) EXCEPT !.reply = job_id]]

\* api/admin.py clear_history_endpoint
clear_history_endpoint(w, r0) ==
    [w |-> clear_history(w), r |-> Finish(r0, 200, None)]

\* ------------------------------------------------------------ core.database
\* Thread names. A worker is a Thread object made by
\* _start_background_initialization; a caller is any other thread that calls
\* a method of the manager.
WorkerNames == <<"w1", "w2", "w3", "w4">>
CallerNames == <<"c1", "c2", "c3", "c4">>
Workers == {WorkerNames[i] : i \in 1..MaxWorkers}
Callers == {CallerNames[i] : i \in 1..MaxCallers}
Threads == Workers \cup Callers

\* The state after Neo4jManager.__init__, lines 18-27, before line 30.
\* driver: whether self.driver is not None; lock: the holder of
\* _connection_lock; attempt_recent: whether _last_connection_attempt is
\* less than retry_interval ago (0 at construction: long ago).
\* unavailable and attempts are observers: the manager was connected and a
\* ServiceUnavailable error has reset it since; the connection attempts
\* that failed since construction or the last successful one (counted up
\* to max_retries + 1).
NewManager ==
    [driver |-> FALSE, initialized |-> FALSE, lock |-> None,
     initialization_thread |-> None, retry_count |-> 0,
     attempt_recent |-> FALSE, unavailable |-> FALSE, attempts |-> 0]

\* A thread's position. op: the method it was asked to run; pc: where it is;
\* ret: where _start_background_initialization returns to; wait: the
\* wait_for_connection argument of execute_*; count: the value of
\* _retry_count read by "+= 1"; result, detail: what the method returned or
\* raised; started_by: the method that started a worker, or "lifespan" for
\* the startup context and the initialize_driver call it makes.
\* failed, runs and up are observers: the failed connection attempts of the
\* current execution of the retry loop, how often the operation of
\* execute_* was run, and whether the backend was reachable all the time
\* since the worker was started; reconnect: the worker was started from
\* inside execute_query(wait_for_connection=True) on a manager that a
\* ServiceUnavailable error had reset.
NoThread ==
    [op |-> None, pc |-> "unstarted", ret |-> None, wait |-> FALSE, count |-> 0,
     result |-> None, detail |-> None, started_by |-> None,
     failed |-> 0, runs |-> 0, up |-> FALSE, reconnect |-> FALSE]

IdleThread == [NoThread EXCEPT !.pc = "idle"]

\* The context that runs the application's startup (main.py lifespan,
\* lines 16-23), before its call of initialize_driver.
LifespanThread == [IdleThread EXCEPT !.started_by = "lifespan"]

\* threading.Thread(target=self._initialize_with_retries).start()
NewWorker(by, up) ==
    [NoThread EXCEPT !.op = "_initialize_with_retries", !.pc = "loop",
                     !.started_by = by, !.up = up]

\* Thread.is_alive()
is_alive(th, t) == t # None /\ th[t].pc \notin {"unstarted", "ended"}

\* The positions inside _initialize_with_retries.
LoopPcs == {"loop", "lock", "probe", "except", "incr", "store"}

\* is_connected, lines 117-119
is_connected(m) == m.initialized /\ m.driver

\* _start_background_initialization, lines 35-39
start_thread(m, w) == [m EXCEPT !.initialization_thread = w]

\* _initialize_with_retries, lines 47-60: lock taken, driver created.
connect_begin(m, t) == [m EXCEPT !.lock = t, !.driver = TRUE]

\* lines 66-69: the probe succeeded.
connect_succeeded(m) ==
    [m EXCEPT !.initialized = TRUE, !.retry_count = 0, !.lock = None,
              !.unavailable = FALSE, !.attempts = 0]

\* the probe raised: the with block releases the lock.
connect_failed(m) ==
    [m EXCEPT !.lock = None,
              !.attempts = IF @ < max_retries + 1 THEN @ + 1 ELSE @]

\* lines 74-79: the handler closes and forgets whatever self.driver is.
discard_driver(m) == [m EXCEPT !.driver = FALSE]

\* lines 81-82: the store of "self._retry_count += 1" and the time stamp.
store_retry_count(m, count) ==
    [m EXCEPT !.retry_count = count + 1, !.attempt_recent = TRUE]

\* close_driver, lines 108-115
close_driver(m) ==
    [m EXCEPT !.initialized = FALSE, !.driver = FALSE, !.unavailable = FALSE]

\* execute_query 159-164, execute_transaction 179-184: on
\* ServiceUnavailable the connection status is reset under the lock.
reset_connection_skipped(m) == m

reset_connection(m) == [m EXCEPT !.initialized = FALSE, !.unavailable = TRUE]

\* execute_query_safe, lines 188-192: a RuntimeError becomes the default
\* value, anything else passes.
execute_query_safe_result(result) ==
    IF result = "RuntimeError" THEN "default" ELSE result

\* ------------------------------------------------------------------- Init
Init ==
    /\ sessions = EmptyMap
    /\ session_dirs = EmptyMap
    /\ issued_sessions = 0
    /\ mtime_order = <<>>
    /\ dir_files = EmptyMap
    /\ history = <<>>
    /\ selected_job = None
    /\ issued_jobs = 0
    /\ req = [p \in Requests |-> IdleReq]
    /\ manager = start_thread(NewManager, WorkerNames[1])
    /\ threads = [t \in Threads |->
                    IF t = WorkerNames[1] THEN NewWorker("__init__", FALSE)
                    ELSE IF t \in Workers THEN NoThread
                    ELSE IF t = CallerNames[1] THEN LifespanThread
                    ELSE IdleThread]
    /\ reachable = FALSE

\* No request is running and every response has been delivered.
Quiet == \A p \in Requests : Idle(req[p])

NextJobId == JobNames[issued_jobs + 1]

\* ---------------------------------------------------------------- actions
\* POST /api/upload/create-session
CreateSession(p) ==
    /\ Idle(req[p])
    /\ issued_sessions < MaxSessions
    /\ LET sid == SessionNames[issued_sessions + 1] IN
       /\ Commit(create_session(World, sid))
       /\ req' = [req EXCEPT
                    ![p] = [Finish(NewReq("create_session", NoWorld), 200, None)
                              EXCEPT !.session_id = sid]]
    /\ issued_sessions' = issued_sessions + 1
    /\ UNCHANGED issued_jobs

\* The clock passes a session's expires_at; sessions expire in the order
\* they were created (one timeout for all).
Expire(sid) ==
    /\ sid \in DOMAIN sessions
    /\ ~sessions[sid].past_expiry
    /\ \A k \in 1..Len(SessionNames) :
          (SessionNames[k] \in DOMAIN sessions
           /\ \E m \in (k+1)..Len(SessionNames) : SessionNames[m] = sid)
              => sessions[SessionNames[k]].past_expiry
    /\ sessions' = [sessions EXCEPT ![sid].past_expiry = TRUE]
    /\ UNCHANGED <<session_dirs, issued_sessions, storeVars, issued_jobs, req, dbVars>>

\* session_cleanup_worker: one round of the periodic sweep.
Sweep ==
    /\ Commit(cleanup_expired_sessions(World))
    /\ req' = detach(req, World, cleanup_expired_sessions(World))
    /\ UNCHANGED <<issued_sessions, issued_jobs>>

\* POST /api/load, to its first suspension point.
LoadData(p, sid, inp) ==
    /\ Idle(req[p])
    /\ LET out == load_data_enter(World, NewReq("load_data", World), sid, inp, NextJobId) IN
       /\ out.issued = 1 => issued_jobs < MaxJobs
       /\ Commit(out.w)
       /\ req' = [req EXCEPT ![p] = out.r]
       /\ issued_jobs' = issued_jobs + out.issued
    /\ UNCHANGED issued_sessions

\* POST /api/load resumes with the notifier's answer for the new job.
LoadDataNotified(p, notify_ok, io) ==
    /\ req[p].op = "load_data" /\ req[p].pc = "notify"
    /\ LET out == load_data_notified(World, req[p], notify_ok, io) IN
       /\ Commit(out.w)
       /\ req' = [req EXCEPT ![p] = out.r]
    /\ UNCHANGED <<issued_sessions, issued_jobs>>

\* POST /api/load resumes after the fallback notification (result ignored).
LoadDataFallbackDone(p) ==
    /\ req[p].op = "load_data" /\ req[p].pc = "fallback"
    /\ LET out == load_data_rollback(World, req[p]) IN
       /\ Commit(out.w)
       /\ req' = [req EXCEPT ![p] = out.r]
    /\ UNCHANGED <<issued_sessions, issued_jobs>>

\* app.py POST /api/load, start to end.
AppLoadData(p, inp, notify_ok) ==
    /\ Idle(req[p])
    /\ issued_jobs < MaxJobs
    /\ LET out == app_load_data(World, NewReq("app_load_data", World), inp, notify_ok, NextJobId) IN
       /\ Commit(out.w)
       /\ req' = [req EXCEPT ![p] = out.r]
    /\ issued_jobs' = issued_jobs + 1
    /\ UNCHANGED issued_sessions


\* The file lists of one upload request.
UploadLists == {<<f>> : f \in FileNames} \cup {<<f, g>> : f \in FileNames, g \in FileNames}

\* Job ids a client may name: the issued ids and entries that are no job.
RequestedIds == JobIds \cup {UPLOADS, HISTORY_FILE}

\* A handler that runs from start to end without suspending.
Atomic(p, out) ==
    /\ Commit(out.w)
    /\ req' = [req EXCEPT ![p] = out.r]
    /\ UNCHANGED <<issued_sessions, issued_jobs>>

\* A handler that resumes after an await.
Resume(p, out) ==
    /\ Commit(out.w)
    /\ req' = [req EXCEPT ![p] = out.r]
    /\ UNCHANGED <<issued_sessions, issued_jobs>>

UploadFiles(p, sid, files) ==
    /\ Idle(req[p])
    /\ Atomic(p, upload_files(World, NewReq("upload_files", NoWorld), sid, files))

DeleteUploadedFile(p, sid, filename) ==
    /\ Idle(req[p])
    /\ Atomic(p, delete_uploaded_file(World, NewReq("delete_uploaded_file", NoWorld), sid, filename))

SelectJob(p, job_id) ==
    /\ Idle(req[p])
    /\ Atomic(p, select_job_enter(World, NewReq("select_job", NoWorld), job_id))

SelectJobNotified(p, notify_ok) ==
    /\ req[p].op = "select_job" /\ req[p].pc = "notify"
    /\ Resume(p, select_job_notified(World, req[p], notify_ok))

DeleteJob(p, job_id) ==
    /\ Idle(req[p])
    /\ Atomic(p, delete_job_enter(World, NewReq("delete_job", NoWorld), job_id))

DeleteJobNotified(p, notify_ok) ==
    /\ req[p].op = "delete_job" /\ req[p].pc = "notify"
    /\ Resume(p, delete_job_notified(World, req[p], notify_ok))

GetHistory(p) ==
    /\ Idle(req[p])
    /\ Atomic(p, get_history_endpoint(World, NewReq("get_history", NoWorld)))

GetGraphInfo(p, requested) ==
    /\ Idle(req[p])
    /\ Atomic(p, get_graph_info_endpoint(World, NewReq("get_graph_info", NoWorld), requested))

ClearHistory(p) ==
    /\ Idle(req[p])
    /\ Atomic(p, clear_history_endpoint(World, NewReq("clear_history", World)))

\* The response of context p is delivered; the context is free again.
Return(p) ==
    /\ req[p].pc = "done"
    /\ req' = [req EXCEPT ![p] = IdleReq]
    /\ UNCHANGED <<sessionVars, storeVars, issued_jobs, dbVars>>

\* ------------------------------------------------------- specifications
\* The requests a client can start in context p.
Start(p) ==
    \/ CreateSession(p)
    \/ \E sid \in SessionIds, files \in UploadLists : UploadFiles(p, sid, files)
    \/ \E sid \in SessionIds, f \in FileNames : DeleteUploadedFile(p, sid, f)
    \/ \E sid \in SessionIds, inp \in LoadInputs : LoadData(p, sid, inp)
    \/ \E job_id \in RequestedIds : SelectJob(p, job_id)
    \/ \E job_id \in RequestedIds : DeleteJob(p, job_id)
    \/ GetHistory(p)
    \/ \E job_id \in RequestedIds \cup {None} : GetGraphInfo(p, job_id)
    \/ ClearHistory(p)

\* The suspended handlers of context p resume; every write succeeds.
Continue(p) ==
    \/ \E ok \in BOOLEAN : LoadDataNotified(p, ok, "ok")
    \/ LoadDataFallbackDone(p)
    \/ \E ok \in BOOLEAN : SelectJobNotified(p, ok)
    \/ \E ok \in BOOLEAN : DeleteJobNotified(p, ok)

Background ==
    \/ \E sid \in SessionIds : Expire(sid)
    \/ Sweep

\* Requests and background tasks one at a time, each run to its end, with
\* both implementations of the load pipeline: context 1 serves every
\* request, and a request starts only in an idle context.
Next ==
    \/ Start(1)
    \/ \E inp \in LoadInputs, ok \in BOOLEAN : AppLoadData(1, inp, ok)
    \/ Continue(1)
    \/ Return(1)
    \/ Quiet /\ Background

Spec == Init /\ [][Next]_vars

\* Requests overlap: while a handler of context 1 is suspended at an await
\* the event loop runs the read requests of the other contexts and the
\* background tasks.
\* The read-only requests a client can start in context p.
Read(p) ==
    \/ GetHistory(p)
    \/ \E job_id \in RequestedIds \cup {None} : GetGraphInfo(p, job_id)

NextConc ==
    \/ Start(1)
    \/ Continue(1)
    \/ \E p \in Requests \ {1} : Read(p)
    \/ \E p \in Requests : Return(p)
    \/ Background

SpecConc == Init /\ [][NextConc]_vars

\* As Spec, and a write of the finalize step may fail.
NextIO ==
    \/ Next
    \/ \E io \in {"history", "graph_info", "pointer"} : LoadDataNotified(1, TRUE, io)

SpecIO == Init /\ [][NextIO]_vars

\* ------------------------------------------- the session store on its own
\* create_session, called through POST /api/upload/create-session.
CreateStoreSession(p) ==
    /\ Idle(req[p])
    /\ issued_sessions < MaxStoreSessions
    /\ LET sid == SessionNames[issued_sessions + 1] IN
       /\ Commit(create_session(World, sid))
       /\ req' = [req EXCEPT
                    ![p] = [Finish(NewReq("create_session", NoWorld), 200, None)
                              EXCEPT !.session_id = sid]]
    /\ issued_sessions' = issued_sessions + 1
    /\ UNCHANGED issued_jobs

\* session_manager.get_session(sid), called on its own.
CallGetSession(p, sid) ==
    /\ Idle(req[p])
    /\ Commit([World EXCEPT !.sessions = get_session_effect(@, sid)])
    /\ req' = [req EXCEPT
                 ![p] = [Finish(NewReq("get_session", World), 0, None)
                           EXCEPT !.session_id = sid,
                                  !.reply = get_session_result(sessions, sid)]]
    /\ UNCHANGED <<issued_sessions, issued_jobs>>

\* session_manager.consume_session(sid), called on its own.
CallConsumeSession(p, sid) ==
    /\ Idle(req[p])
    /\ Commit([World EXCEPT !.sessions = consume_session(@, sid)])
    /\ req' = [req EXCEPT
                 ![p] = [Finish(NewReq("consume_session", NoWorld), 0, None)
                           EXCEPT !.session_id = sid,
                                  !.reply = get_session_result(sessions, sid)]]
    /\ UNCHANGED <<issued_sessions, issued_jobs>>

\* session_cleanup_worker, line 11: one round of the periodic sweep, a call
\* of cleanup_expired_sessions; the number it returns is kept.
CallCleanupExpired(p) ==
    /\ Idle(req[p])
    /\ Commit(cleanup_expired_sessions(World))
    /\ req' = [detach(req, World, cleanup_expired_sessions(World)) EXCEPT
                 ![p] = [Finish(NewReq("cleanup_expired_sessions", World), 0, None)
                           EXCEPT !.count = cleanup_expired_count(sessions)]]
    /\ UNCHANGED <<issued_sessions, issued_jobs>>

\* POST /api/upload/files, to its first suspension point.
UploadBegin(p, sid, files) ==
    /\ Idle(req[p])
    /\ Atomic(p, upload_begin(World, NewReq("upload_files", NoWorld), sid, files))

\* POST /api/upload/files resumes after "await file.read()".
UploadResume(p) ==
    /\ req[p].op = "upload_files" /\ req[p].pc = "read"
    /\ Resume(p, upload_resume(World, req[p]))

\* The file lists of one upload request to the store on its own.
StoreUploadLists ==
    {<<f>> : f \in StoreFileNames} \cup {<<f, g>> : f \in StoreFileNames, g \in StoreFileNames}

\* The clock passes the expiry of a session of the store.
StoreClock == \E sid \in StoreSessionIds : Expire(sid)

\* The operations of the session store in any order and number, one at a
\* time, the rounds of the periodic sweep among them, and the clock.
NextStore ==
    \/ CreateStoreSession(1)
    \/ \E sid \in StoreSessionIds : CallGetSession(1, sid)
    \/ \E sid \in StoreSessionIds : CallConsumeSession(1, sid)
    \/ CallCleanupExpired(1)
    \/ \E sid \in StoreSessionIds, files \in StoreUploadLists : UploadFiles(1, sid, files)
    \/ \E sid \in StoreSessionIds, f \in StoreFileNames : DeleteUploadedFile(1, sid, f)
    \/ Return(1)
    \/ Quiet /\ StoreClock

SpecStore == Init /\ [][NextStore]_vars

\* Upload requests that overlap: while one is suspended at its await the
\* event loop runs the other contexts, the clock and the periodic sweep.
NextUpload ==
    \/ \E p \in Requests :
          \/ CreateSession(p)
          \/ \E sid \in SessionIds, files \in StoreUploadLists : UploadBegin(p, sid, files)
          \/ UploadResume(p)
          \/ \E sid \in SessionIds, f \in StoreFileNames : DeleteUploadedFile(p, sid, f)
          \/ Return(p)
    \/ \E sid \in SessionIds : Expire(sid)
    \/ Sweep

SpecUpload == Init /\ [][NextUpload]_vars

\* ------------------------------------------- core.database: the threads
Capped(n) == IF n < max_retries + 1 THEN n + 1 ELSE n

\* A method returns or raises in a caller thread.
finish(r, result, detail) ==
    [r EXCEPT !.pc = "done", !.ret = None, !.count = 0, !.detail = detail,
              !.result = IF r.op = "execute_query_safe"
                         THEN execute_query_safe_result(result) ELSE result]

\* _initialize_with_retries returns: a worker thread ends, initialize_driver
\* (line 104) returns the value to its caller.
\* detail: "connected" when the loop found or made the manager connected,
\* "exhausted" when it gave up.
exit_loop(r, t, value, detail) ==
    IF t \in Workers
    THEN [r EXCEPT !.pc = "ended", !.count = 0, !.result = value, !.detail = detail]
    ELSE finish(r, value, detail)

\* wait_for_connection returns (line 133): to its caller, or into
\* execute_query / execute_transaction (lines 150-151, 171-172).
wait_returns(r, value) ==
    IF r.op = "wait_for_connection" THEN finish(r, IF value THEN "True" ELSE "False", None)
    ELSE IF value THEN [r EXCEPT !.pc = "exec_run"]
    ELSE finish(r, "RuntimeError", "wait_failed")

\* _start_background_initialization returns: into the loop of
\* wait_for_connection (line 131) or to the raise of get_session (line 141).
start_returns(r) ==
    IF r.ret = "wait" THEN [r EXCEPT !.pc = "wait", !.ret = None]
    ELSE finish(r, "RuntimeError", "not_initialized")

\* get_session, lines 137-141, when the manager is not connected.
get_session_unconnected(m, r) ==
    IF ~m.attempt_recent THEN [r EXCEPT !.pc = "start_check", !.ret = "raise"]
    ELSE finish(r, "RuntimeError", "not_initialized")

\* execute_query 147-153, execute_transaction 168-174, when the manager is
\* not connected: wait for the connection, or raise at once.
execute_not_connected_waits(r) == [r EXCEPT !.pc = "wait"]

execute_not_connected(r) ==
    IF r.wait THEN [r EXCEPT !.pc = "wait"]
    ELSE finish(r, "RuntimeError", "not_ready")

SetThread(t, r) == threads' = [threads EXCEPT ![t] = r]

\* line 45: the loop condition.
LoopCheck(t) ==
    /\ threads[t].pc = "loop"
    /\ SetThread(t, IF manager.retry_count < max_retries /\ ~manager.initialized
                    THEN [threads[t] EXCEPT !.pc = "lock"]
                    ELSE exit_loop(threads[t], t, "False",
                                   IF manager.initialized THEN "connected" ELSE "exhausted"))
    /\ UNCHANGED <<manager, reachable, jobVars>>

\* lines 47-60: the lock is acquired; the double check; the driver is made.
LoopLock(t) ==
    /\ threads[t].pc = "lock"
    /\ manager.lock = None
    /\ IF manager.initialized
       THEN SetThread(t, exit_loop(threads[t], t, "False", "connected")) /\ UNCHANGED manager
       ELSE /\ manager' = connect_begin(manager, t)
            /\ SetThread(t, [threads[t] EXCEPT !.pc = "probe"])
    /\ UNCHANGED <<reachable, jobVars>>

\* lines 63-69: the probe query, under the lock.
LoopProbe(t) ==
    /\ threads[t].pc = "probe"
    /\ IF reachable
       THEN /\ manager' = connect_succeeded(manager)
            /\ SetThread(t, exit_loop(threads[t], t, "True", "connected"))
       ELSE /\ manager' = connect_failed(manager)
            /\ SetThread(t, [threads[t] EXCEPT !.pc = "except",
                                               !.failed = Capped(@)])
    /\ UNCHANGED <<reachable, jobVars>>

\* lines 71-79: the handler, outside the lock.
LoopExcept(t) ==
    /\ threads[t].pc = "except"
    /\ manager' = discard_driver(manager)
    /\ SetThread(t, [threads[t] EXCEPT !.pc = "incr"])
    /\ UNCHANGED <<reachable, jobVars>>

\* line 81: the load of "self._retry_count += 1".
LoopIncr(t) ==
    /\ threads[t].pc = "incr"
    /\ SetThread(t, [threads[t] EXCEPT !.pc = "store", !.count = manager.retry_count])
    /\ UNCHANGED <<manager, reachable, jobVars>>

\* lines 81-89: the store, the time stamp, and sleep or break.
LoopStore(t) ==
    /\ threads[t].pc = "store"
    /\ manager' = store_retry_count(manager, threads[t].count)
    /\ SetThread(t, IF threads[t].count + 1 < max_retries
                    THEN [threads[t] EXCEPT !.pc = "loop", !.count = 0]
                    ELSE exit_loop(threads[t], t, "False", "exhausted"))
    /\ UNCHANGED <<reachable, jobVars>>

\* wait_for_connection, lines 125-131: one pass of its loop; the first one
\* when the method is called.
WaitForConnection(c) ==
    /\ threads[c].pc \in {"idle", "wait"}
    /\ LET r == IF threads[c].pc = "idle"
                THEN [IdleThread EXCEPT !.op = "wait_for_connection", !.pc = "wait"]
                ELSE threads[c]
       IN  SetThread(c, IF manager.initialized THEN wait_returns(r, TRUE)
                        ELSE IF is_alive(threads, manager.initialization_thread) THEN r
                        ELSE [r EXCEPT !.pc = "start_check", !.ret = "wait"])
    /\ UNCHANGED <<manager, reachable, jobVars>>

\* wait_for_connection, lines 125 and 133: the timeout has elapsed.
WaitTimeout(c) ==
    /\ threads[c].pc = "wait"
    /\ SetThread(c, wait_returns(threads[c], manager.initialized))
    /\ UNCHANGED <<manager, reachable, jobVars>>

\* _start_background_initialization, line 34: the check.
StartCheck(c) ==
    /\ threads[c].pc = "start_check"
    /\ SetThread(c, IF ~is_alive(threads, manager.initialization_thread)
                    THEN [threads[c] EXCEPT !.pc = "start_thread"]
                    ELSE start_returns(threads[c]))
    /\ UNCHANGED <<manager, reachable, jobVars>>

\* _start_background_initialization, lines 35-39: a new thread is started.
StartThread(c) ==
    /\ threads[c].pc = "start_thread"
    /\ \E i \in 1..MaxWorkers :
          /\ ~is_alive(threads, WorkerNames[i])
          /\ \A k \in 1..(i-1) : is_alive(threads, WorkerNames[k])
          /\ manager' = start_thread(manager, WorkerNames[i])
          /\ threads' = [threads EXCEPT
                ![WorkerNames[i]] =
                    [NewWorker(IF threads[c].ret = "wait"
                               THEN "wait_for_connection" ELSE "get_session",
                               reachable)
                       EXCEPT !.reconnect = /\ threads[c].op = "execute_query"
                                            /\ threads[c].wait
                                            /\ manager.unavailable],
                ![c] = start_returns(threads[c])]
    /\ UNCHANGED <<reachable, jobVars>>

\* get_session, lines 135-143
GetSession(c) ==
    /\ threads[c].pc = "idle"
    /\ LET r == [IdleThread EXCEPT !.op = "get_session"] IN
       SetThread(c, IF is_connected(manager) THEN finish(r, "session", None)
                    ELSE get_session_unconnected(manager, r))
    /\ UNCHANGED <<manager, reachable, jobVars>>

\* initialize_driver, lines 95-100
InitializeDriver(c) ==
    /\ threads[c].pc = "idle"
    /\ LET r == [IdleThread EXCEPT !.op = "initialize_driver",
                                   !.started_by = threads[c].started_by] IN
       SetThread(c, IF manager.initialized THEN finish(r, "True", None)
                    ELSE IF is_alive(threads, manager.initialization_thread)
                    THEN [r EXCEPT !.pc = "joined"]
                    ELSE [r EXCEPT !.pc = "loop"])
    /\ UNCHANGED <<manager, reachable, jobVars>>

\* initialize_driver, lines 100-106: join returned, by the thread's end or
\* by the timeout of one second.
Joined(c) ==
    /\ threads[c].pc = "joined"
    /\ SetThread(c, IF ~manager.initialized THEN [threads[c] EXCEPT !.pc = "loop"]
                    ELSE finish(threads[c], "True", None))
    /\ UNCHANGED <<manager, reachable, jobVars>>

ExecuteOps == {"execute_query", "execute_transaction", "execute_query_safe"}

\* execute_query 147-153, execute_transaction 168-174; execute_query_safe
\* (line 189) calls execute_query with wait_for_connection=False.
Execute(c, op, wait) ==
    /\ threads[c].pc = "idle"
    /\ op = "execute_query_safe" => ~wait
    /\ LET r == [IdleThread EXCEPT !.op = op, !.wait = wait] IN
       SetThread(c, IF is_connected(manager) THEN [r EXCEPT !.pc = "exec_run"]
                    ELSE execute_not_connected(r))
    /\ UNCHANGED <<manager, reachable, jobVars>>

\* execute_query 155-160, execute_transaction 176-180: get_session and the
\* operation; fails: the operation raises an error of its own.
ExecRun(c, fails) ==
    /\ threads[c].pc = "exec_run"
    /\ SetThread(c,
          IF ~is_connected(manager) THEN get_session_unconnected(manager, threads[c])
          ELSE LET r == [threads[c] EXCEPT !.runs = @ + 1] IN
               IF ~reachable THEN [r EXCEPT !.pc = "exec_reset"]
               ELSE IF fails THEN finish(r, "OperationError", "operation")
               ELSE finish(r, "rows", None))
    /\ UNCHANGED <<manager, reachable, jobVars>>

\* execute_query 159-164, execute_transaction 179-184
ExecReset(c) ==
    /\ threads[c].pc = "exec_reset"
    /\ manager.lock = None
    /\ manager' = reset_connection(manager)
    /\ SetThread(c, finish(threads[c], "RuntimeError", "unavailable"))
    /\ UNCHANGED <<reachable, jobVars>>

\* close_driver, lines 108-115
CloseDriver(c) ==
    /\ threads[c].pc = "idle"
    /\ manager.lock = None
    /\ manager' = close_driver(manager)
    /\ SetThread(c, finish([IdleThread EXCEPT !.op = "close_driver"], None, None))
    /\ UNCHANGED <<reachable, jobVars>>

\* The caller has its answer and is free for the next call.
Returned(c) ==
    /\ threads[c].pc = "done"
    /\ SetThread(c, IdleThread)
    /\ UNCHANGED <<manager, reachable, jobVars>>

\* The backend comes up or goes away.
BackendChanges ==
    /\ reachable' = ~reachable
    /\ threads' = [t \in Threads |->
                     IF is_alive(threads, t) THEN [threads[t] EXCEPT !.up = FALSE]
                     ELSE threads[t]]
    /\ UNCHANGED <<manager, jobVars>>

\* More than retry_interval has passed since _last_connection_attempt.
IntervalPasses ==
    /\ manager.attempt_recent
    /\ manager' = [manager EXCEPT !.attempt_recent = FALSE]
    /\ UNCHANGED <<threads, reachable, jobVars>>

\* The connection manager with its workers and callers, every interleaving.
NextDb ==
    \/ \E t \in Threads : \/ LoopCheck(t) \/ LoopLock(t) \/ LoopProbe(t)
                          \/ LoopExcept(t) \/ LoopIncr(t) \/ LoopStore(t)
    \/ \E c \in Callers :
          \/ WaitForConnection(c) \/ WaitTimeout(c)
          \/ StartCheck(c) \/ StartThread(c)
          \/ GetSession(c)
          \/ InitializeDriver(c) \/ Joined(c)
          \/ \E op \in ExecuteOps, wait \in BOOLEAN : Execute(c, op, wait)
          \/ \E fails \in BOOLEAN : ExecRun(c, fails)
          \/ ExecReset(c)
          \/ CloseDriver(c)
          \/ Returned(c)
    \/ BackendChanges
    \/ IntervalPasses

SpecDb == Init /\ [][NextDb]_vars


\* ------------------------------------------------------------ properties
\* C1: when the annotation notifier answers with an error for the new job,
\* the submission fails, the new job's output directory does not exist, the
\* history list is what it was before the submission and the selected-job
\* pointer still holds what it held before.
C1_NotifierErrorRollsBack ==
    \A p \in Requests :
        (/\ req[p].pc = "done"
         /\ req[p].op \in {"load_data", "app_load_data"}
         /\ req[p].notifier = "error")
        => /\ req[p].status_code = 500
           /\ ~path_exists(mtime_order, req[p].job_id)
           /\ ~is_dir(dir_files, req[p].job_id)
           /\ history = req[p].pre.history
           /\ selected_job = req[p].pre.selected_job

\* A submission through the upload session met a notifier error while an
\* earlier job was in the history and selected.
C1_Witness ==
    \E p \in Requests :
        /\ req[p].pc = "done" /\ req[p].op = "load_data"
        /\ req[p].notifier = "error"
        /\ req[p].pre.history # <<>>
        /\ req[p].pre.selected_job \in JobIds

\* C2: however a submission fails after the loader ran (loader failure, an
\* exception in the database sync, notifier failure), the job's output
\* directory does not exist when the error is returned and neither the
\* history list nor the selected-job pointer mentions the job.
C2_FailedJobLeavesNoTrace ==
    \A p \in Requests :
        (/\ req[p].pc = "done"
         /\ req[p].op \in {"load_data", "app_load_data"}
         /\ req[p].status_code >= 400
         /\ "loader" \in req[p].calls)
        => /\ ~path_exists(mtime_order, req[p].job_id)
           /\ \A i \in 1..Len(history) : history[i].job_id # req[p].job_id
           /\ selected_job # req[p].job_id

\* C3: for a neo4j job a failure of the database sync (an error result or
\* an exception) does not abort the pipeline: the notifier is called and,
\* when it succeeds, the job is finalized (record at the head of history,
\* pointer set) and the submission succeeds.
C3_DatabaseSyncFailureIsNotFatal ==
    \A p \in Requests :
        (/\ req[p].pc = "done"
         /\ req[p].op \in {"load_data", "app_load_data"}
         /\ req[p].writer_type = NEO4J
         /\ req[p].neo4j \in {"error", "raise"})
        => /\ "notifier" \in req[p].calls
           /\ req[p].notifier = "ok" =>
                 /\ req[p].status_code = 200
                 /\ history # <<>> /\ history[1].job_id = req[p].job_id
                 /\ selected_job = req[p].job_id

\* C4: no partial job is visible: while a load_data is in flight, the job
\* id resolved by get_job_id_to_use, the job id a GET /history or GET
\* /kg-info response reports and every job id in the history list differ
\* from the job of that load_data.
C4_NoPartialJobVisible ==
    \A p \in Requests :
        (InFlight(req[p]) /\ req[p].op = "load_data" /\ req[p].job_id # None)
        => /\ get_job_id_to_use(World, None) # req[p].job_id
           /\ \A i \in 1..Len(history) : history[i].job_id # req[p].job_id
           /\ \A q \in Requests :
                 (req[q].pc = "done" /\ req[q].op \in {"get_history", "get_graph_info"})
                 => req[q].reply # req[p].job_id

\* C5: when no request is running, the selected-job pointer is absent or
\* holds the id of a job whose output directory exists.
C5_PointerNamesExistingJob ==
    (\A p \in Requests : ~InFlight(req[p]))
    => \/ selected_job = None
       \/ selected_job \in JobIds /\ is_dir(dir_files, selected_job)

\* C6: when the loader exits with a nonzero code or leaves no output file,
\* the submission fails, the job's output directory does not exist and the
\* history list is what it was before the submission.
C6_LoaderFailureRollsBack ==
    \A p \in Requests :
        (/\ req[p].pc = "done"
         /\ req[p].op \in {"load_data", "app_load_data"}
         /\ req[p].loader \in {"exit_nonzero", "no_output"})
        => /\ req[p].status_code = 500
           /\ ~path_exists(mtime_order, req[p].job_id)
           /\ ~is_dir(dir_files, req[p].job_id)
           /\ history = req[p].pre.history

\* The loader failed while an earlier job was in the history.
C6_Witness ==
    \E p \in Requests :
        /\ req[p].pc = "done" /\ req[p].op = "app_load_data"
        /\ req[p].loader = "exit_nonzero"
        /\ req[p].pre.history # <<>>

\* C7 as stated: the session is consumed and its staged storage deleted
\* exactly when the submission succeeded; after a failed submission the
\* session store and the staged files are what they were before.
C7_SessionUntouchedUnlessSuccess ==
    \A p \in Requests :
        (req[p].pc = "done" /\ req[p].op = "load_data")
        => IF req[p].status_code = 200
           THEN /\ req[p].session_id \notin DOMAIN sessions
                /\ req[p].session_id \notin DOMAIN session_dirs
           ELSE /\ sessions = req[p].pre.sessions
                /\ session_dirs = req[p].pre.session_dirs

\* C7, amended: the session is consumed and its staged storage deleted
\* exactly when the submission succeeded; after a failed submission every
\* session has its entry, file list and staged files as before, and its
\* status as before except that the submitted session, when it was past
\* its expiry, is marked expired.
C7_SessionConsumedIffSuccess ==
    \A p \in Requests :
        (req[p].pc = "done" /\ req[p].op = "load_data")
        => IF req[p].status_code = 200
           THEN /\ req[p].session_id \notin DOMAIN sessions
                /\ req[p].session_id \notin DOMAIN session_dirs
           ELSE /\ session_dirs = req[p].pre.session_dirs
                /\ DOMAIN sessions = DOMAIN req[p].pre.sessions
                /\ \A sid \in DOMAIN sessions :
                      /\ sessions[sid].uploaded_files = req[p].pre.sessions[sid].uploaded_files
                      /\ sessions[sid].past_expiry = req[p].pre.sessions[sid].past_expiry
                      /\ sessions[sid].status =
                            IF sid = req[p].session_id /\ req[p].pre.sessions[sid].past_expiry
                            THEN EXPIRED
                            ELSE req[p].pre.sessions[sid].status

\* A submission failed at the notifier: its session, valid and with a
\* staged file before, is still there.
C7_Witness ==
    \E p \in Requests :
        /\ req[p].pc = "done" /\ req[p].op = "load_data"
        /\ req[p].status_code = 500 /\ req[p].notifier = "error"
        /\ req[p].session_id \in DOMAIN sessions
        /\ sessions[req[p].session_id].status = ACTIVE
        /\ session_dirs[req[p].session_id] # {}

\* C8: after a successful submission the response carries the job's id,
\* the history list is the previous list with the job's record put in
\* front, and the selected-job pointer holds the job's id.
C8_SuccessfulLoadIsRecorded ==
    \A p \in Requests :
        (/\ req[p].pc = "done"
         /\ req[p].op \in {"load_data", "app_load_data"}
         /\ req[p].status_code = 200)
        => /\ req[p].reply = req[p].job_id
           /\ req[p].reply \in JobIds
           /\ Len(history) = Len(req[p].pre.history) + 1
           /\ history[1].job_id = req[p].job_id
           /\ Tail(history) = req[p].pre.history
           /\ selected_job = req[p].job_id

\* A submission through the upload session succeeded while an earlier job
\* was in the history.
C8_Witness ==
    \E p \in Requests :
        /\ req[p].pc = "done" /\ req[p].op = "load_data"
        /\ req[p].status_code = 200
        /\ req[p].pre.history # <<>>
        /\ req[p].pre.selected_job # None

\* C9 as stated: a submission for a session that is unknown, past its
\* expiry or without files fails at once, calls neither the loader nor the
\* database sync nor the notifier, and leaves the base output directory,
\* the history list, the pointer and the session store unchanged.
C9_InvalidSessionNoEffect ==
    \A p \in Requests :
        (/\ req[p].pc = "done" /\ req[p].op = "load_data"
         /\ \/ req[p].session_id \notin DOMAIN req[p].pre.sessions
            \/ req[p].pre.sessions[req[p].session_id].past_expiry
            \/ req[p].pre.sessions[req[p].session_id].uploaded_files = <<>>)
        => /\ req[p].status_code = 400
           /\ req[p].calls = {} /\ req[p].job_id = None
           /\ mtime_order = req[p].pre.mtime_order
           /\ dir_files = req[p].pre.dir_files
           /\ history = req[p].pre.history
           /\ selected_job = req[p].pre.selected_job
           /\ session_dirs = req[p].pre.session_dirs
           /\ sessions = req[p].pre.sessions

\* C9, amended: as stated, except that a known session past its expiry
\* has its status set to expired; nothing else of the session store
\* changes.
C9_InvalidSessionFailsAtOnce ==
    \A p \in Requests :
        (/\ req[p].pc = "done" /\ req[p].op = "load_data"
         /\ \/ req[p].session_id \notin DOMAIN req[p].pre.sessions
            \/ req[p].pre.sessions[req[p].session_id].past_expiry
            \/ req[p].pre.sessions[req[p].session_id].uploaded_files = <<>>)
        => /\ req[p].status_code = 400
           /\ req[p].calls = {} /\ req[p].job_id = None
           /\ mtime_order = req[p].pre.mtime_order
           /\ dir_files = req[p].pre.dir_files
           /\ history = req[p].pre.history
           /\ selected_job = req[p].pre.selected_job
           /\ session_dirs = req[p].pre.session_dirs
           /\ sessions =
                 [sid \in DOMAIN req[p].pre.sessions |->
                     IF sid = req[p].session_id /\ req[p].pre.sessions[sid].past_expiry
                     THEN [status |-> EXPIRED,
                           uploaded_files |-> req[p].pre.sessions[sid].uploaded_files,
                           past_expiry |-> TRUE]
                     ELSE req[p].pre.sessions[sid]]

\* A submission for a session past its expiry, with a staged file and
\* still marked active, was turned down.
C9_Witness ==
    \E p \in Requests :
        /\ req[p].pc = "done" /\ req[p].op = "load_data"
        /\ req[p].session_id \in DOMAIN req[p].pre.sessions
        /\ req[p].pre.sessions[req[p].session_id].past_expiry
        /\ req[p].pre.sessions[req[p].session_id].status = ACTIVE
        /\ req[p].pre.sessions[req[p].session_id].uploaded_files # <<>>
        /\ req[p].pre.history # <<>>

\* C10: when the loader, the database sync and the notifier succeeded, a
\* failed write of the history record or of the selected-job pointer is no
\* failure of the job: the submission succeeds and the session is consumed.
C10_StoreFailureIsOnlyAWarning ==
    \A p \in Requests :
        (/\ req[p].pc = "done" /\ req[p].op = "load_data"
         /\ req[p].notifier = "ok"
         /\ req[p].io \in {"history", "graph_info", "pointer"})
        => /\ req[p].status_code = 200
           /\ req[p].reply = req[p].job_id
           /\ req[p].session_id \notin DOMAIN sessions
           /\ req[p].session_id \notin DOMAIN session_dirs

\* C11: the job a read or visualization call addresses is resolved in strict
\* priority: the explicit id when its directory exists, else the persisted
\* selection when its directory exists, else the most recently modified job
\* directory, else none.
C11_ResolutionPriority ==
    \A job_id \in RequestedIds \cup {None} :
        LET job_dirs == SelectSeq(mtime_order,
                            LAMBDA e : e \in JobIds /\ is_dir(dir_files, e))
        IN  get_job_id_to_use(World, job_id) =
                IF job_id # None /\ is_dir(dir_files, job_id) THEN job_id
                ELSE IF selected_job # None /\ is_dir(dir_files, selected_job)
                THEN selected_job
                ELSE IF job_dirs # <<>> THEN job_dirs[1]
                ELSE None

\* C12: a resolved job id that is not none names an existing job output
\* directory, never another entry of the base directory; with no job
\* directory at all the resolution is none.
C12_ResolvedIdIsAJobDirectory ==
    \A job_id \in JobIds \cup {None} :
        LET resolved == get_job_id_to_use(World, job_id) IN
        /\ resolved # None => resolved \in JobIds /\ is_dir(dir_files, resolved)
        /\ (\A j \in JobIds : ~is_dir(dir_files, j)) => resolved = None

C14_LastJobDeletedClearsSelection ==
    \A p \in Requests :
        (/\ req[p].pc = "done" /\ req[p].op = "delete_job"
         /\ req[p].status_code = 200
         /\ req[p].job_id \in JobIds /\ req[p].directory_deleted
         /\ history = <<>>
         /\ \A j \in JobIds : ~path_exists(mtime_order, j))
        => /\ selected_job = None
           /\ req[p].reply = EMPTY
           /\ get_history_endpoint(World, IdleReq).r.reply = EMPTY

\* C15: after clear_history the history store is the empty skeleton, the
\* pointer is absent and no job output directory exists.
C15_ClearHistoryLeavesNothing ==
    \A p \in Requests :
        (req[p].pc = "done" /\ req[p].op = "clear_history")
        => /\ history = <<>>
           /\ selected_job = None
           /\ \A j \in JobIds : ~path_exists(mtime_order, j) /\ j \notin DOMAIN dir_files

C15_Witness ==
    \E p \in Requests :
        /\ req[p].pc = "done" /\ req[p].op = "clear_history"
        /\ Len(req[p].pre.history) = 2
        /\ req[p].pre.selected_job \in JobIds
        /\ \E j \in JobIds : is_dir(req[p].pre.dir_files, j)
        /\ history = <<>>

\* C16: at most one execution of the connection retry loop is active at any
\* time, in the worker threads and the callers of initialize_driver together.
C16_OneRetryLoopAtATime ==
    Cardinality({t \in Threads : threads[t].pc \in LoopPcs}) <= 1

\* C17: an execution of the retry loop stops after at most max_retries
\* failed connection attempts.
C17_RetryLoopStopsAfterMaxRetries ==
    \A t \in Threads : threads[t].failed <= max_retries

\* C18: a worker that wait_for_connection restarted after the previous one
\* had stopped, with the backend reachable from then on, makes a connection
\* attempt and so ends only with the manager connected.
C18_RestartedWorkerConnects ==
    \A w \in Workers :
        (/\ threads[w].pc = "ended"
         /\ threads[w].started_by = "wait_for_connection"
         /\ threads[w].up)
        => threads[w].detail = "connected"

\* C19: when the operation of execute_query or execute_transaction fails
\* with ServiceUnavailable, the manager is not connected afterwards, the
\* caller gets an error, and the operation was run once only.
C19_ServiceUnavailableResetsAndRaises ==
    [][\A c \in Callers :
          (/\ threads[c].op \in {"execute_query", "execute_transaction"}
           /\ threads[c].pc = "exec_reset"
           /\ threads'[c].pc # "exec_reset")
          => /\ ~manager'.initialized /\ ~is_connected(manager')
             /\ threads'[c].pc = "done"
             /\ threads'[c].result = "RuntimeError"
             /\ threads'[c].runs = 1]_vars

C19_Witness ==
    \E c \in Callers :
        /\ threads[c].pc = "done"
        /\ threads[c].op \in {"execute_query", "execute_transaction"}
        /\ threads[c].detail = "unavailable"
        /\ threads[c].result = "RuntimeError"
        /\ threads[c].runs = 1
        /\ manager.driver /\ ~manager.initialized

\* C20: execute_query_safe never raises: it returns the rows of the query
\* or, on every failure, the default value.
C20_ExecuteQuerySafeNeverRaises ==
    \A c \in Callers :
        (threads[c].pc = "done" /\ threads[c].op = "execute_query_safe")
        => threads[c].result \in {"rows", "default"}

\* C21: execute_query or execute_transaction with wait_for_connection=False
\* on a manager that is not connected raises the not-ready error in the
\* same step: nothing is waited for, the operation is not run, no worker is
\* started and the manager's fields, the retry counter among them, stay.
C21_NoWaitFailsAtOnce ==
    [][\A c \in Callers :
          (/\ threads[c].pc = "idle"
           /\ threads'[c].op \in {"execute_query", "execute_transaction"}
           /\ ~threads'[c].wait
           /\ ~(manager.initialized /\ manager.driver))
          => /\ threads'[c].pc = "done"
             /\ threads'[c].result = "RuntimeError"
             /\ threads'[c].detail = "not_ready"
             /\ threads'[c].runs = 0
             /\ manager' = manager
             /\ \A w \in Workers : threads'[w] = threads[w]]_vars

C21_Witness ==
    \E c \in Callers :
        /\ threads[c].pc = "done"
        /\ threads[c].op \in {"execute_query", "execute_transaction"}
        /\ ~threads[c].wait
        /\ threads[c].detail = "not_ready"
        /\ threads[c].runs = 0
        /\ manager.retry_count > 0 /\ ~manager.initialized

\* C22: when wait_for_connection returns, its result is True exactly when
\* the manager is connected (the flag set and a driver present) at that
\* moment; called on a connected manager it returns True in its first step
\* and starts no worker.
C22_WaitResultIsConnected ==
    [][\A c \in Callers :
          (/\ threads[c].pc # "done"
           /\ threads'[c].pc = "done"
           /\ threads'[c].op = "wait_for_connection")
          => /\ (threads'[c].result = "True")
                    <=> (manager'.initialized /\ manager'.driver)
             /\ (threads[c].pc = "idle" /\ manager.initialized /\ manager.driver)
                    => /\ threads'[c].result = "True"
                       /\ manager' = manager
                       /\ \A w \in Workers : threads'[w] = threads[w]]_vars

\* C23: the startup sequence never makes a connection attempt itself: the
\* initialize_driver call of the lifespan is never inside a connection
\* attempt and has no failed attempt of its own.
C23_StartupNeverConnectsItself ==
    \A c \in Callers :
        (threads[c].op = "initialize_driver" /\ threads[c].started_by = "lifespan")
        => threads[c].pc # "probe" /\ threads[c].failed = 0

\* C24: get_session(id) returns the session exactly when the id is known
\* and its expiry lies in the future; for an unknown id it returns None and
\* the store is what it was; for a known id past its expiry it returns None
\* and the store differs from before in that session's status, now expired.
C24_GetSessionContract ==
    \A p \in Requests :
        (req[p].pc = "done" /\ req[p].op = "get_session")
        => LET sid == req[p].session_id
               before == req[p].pre.sessions
               known == sid \in DOMAIN before
           IN /\ (req[p].reply = sid) <=> (known /\ ~before[sid].past_expiry)
              /\ req[p].reply \in {sid, None}
              /\ ~known => /\ sessions = before
                           /\ session_dirs = req[p].pre.session_dirs
              /\ (known /\ before[sid].past_expiry)
                    => /\ req[p].reply = None
                       /\ sessions = [before EXCEPT ![sid].status = EXPIRED]

C24_Witness ==
    \E p \in Requests :
        /\ req[p].pc = "done" /\ req[p].op = "get_session"
        /\ req[p].session_id \in DOMAIN req[p].pre.sessions
        /\ req[p].pre.sessions[req[p].session_id].past_expiry
        /\ req[p].pre.sessions[req[p].session_id].status = ACTIVE
        /\ req[p].pre.sessions[req[p].session_id].uploaded_files # <<>>
        /\ req[p].reply = None
        /\ sessions[req[p].session_id].status = EXPIRED

\* C25: when an upload request adds a file name to a live session, a name
\* already in the session's list makes the request fail with the
\* duplicate-file error (400) and the list stays as it was; a name not in
\* the list is appended at its end.
C25_AddFileContract ==
    [][\A p \in Requests :
          (/\ req[p].op = "upload_files" /\ req[p].pc = "read"
           /\ req'[p].files = Tail(req[p].files)
           /\ req[p].session_id \in DOMAIN sessions
           /\ ~sessions[req[p].session_id].past_expiry)
          => LET sid == req[p].session_id
                 f == Head(req[p].files)
             IN IF f \in Range(sessions[sid].uploaded_files)
                THEN /\ req'[p].pc = "done" /\ req'[p].status_code = 400
                     /\ sessions'[sid].uploaded_files = sessions[sid].uploaded_files
                ELSE sessions'[sid].uploaded_files
                        = Append(sessions[sid].uploaded_files, f)]_vars

\* C26: no session's uploaded-file list holds the same file name twice, in
\* every state, also when one request names a file twice and when two
\* requests for the same session and file name overlap at their awaits.
C26_UploadedFilesUnique ==
    \A sid \in DOMAIN sessions :
        \A i, j \in 1..Len(sessions[sid].uploaded_files) :
            sessions[sid].uploaded_files[i] = sessions[sid].uploaded_files[j] => i = j

\* Two overlapping requests for the same session and file name have both
\* been answered with 200.
C26_Witness ==
    /\ \A p \in 1..2 :
          /\ req[p].pc = "done" /\ req[p].op = "upload_files"
          /\ req[p].status_code = 200
          /\ req[p].session_id = SessionNames[1]
    /\ SessionNames[1] \in DOMAIN sessions
    /\ sessions[SessionNames[1]].uploaded_files = <<"a.csv">>

C28_SweepCollectsEveryExpired ==
    \A p \in Requests :
        (req[p].pc = "done" /\ req[p].op = "cleanup_expired_sessions")
        => \A sid \in DOMAIN sessions : ~sessions[sid].past_expiry

\* C29: a session's status changes only from active to expired or from
\* active to consumed; a consumed or expired session keeps its status as
\* long as it is in the store.
C29_StatusOnlyLeavesActive ==
    [][\A sid \in (DOMAIN sessions) \cap (DOMAIN sessions') :
          sessions'[sid].status # sessions[sid].status
          => /\ sessions[sid].status = ACTIVE
             /\ sessions'[sid].status \in {EXPIRED, CONSUMED}]_vars

\* C30: after a ServiceUnavailable error has reset a connected manager, the
\* worker that a later execute_query(wait_for_connection=True) starts
\* reconnects when the backend is reachable: such a worker, with the
\* backend reachable all its life, ends only with the manager connected.
C30_ReconnectsAfterReset ==
    \A w \in Workers :
        (threads[w].pc = "ended" /\ threads[w].reconnect /\ threads[w].up)
        => threads[w].detail = "connected"

\* C31: when the notifier fails for the new job of a load_data, a fallback
\* notification goes only to the job id that was the persisted selection
\* when the submission began, never to the new job or another id, and none
\* is sent when no job was selected; the request ends with the notifier's
\* error either way.
C31_FallbackOnlyToPreviousSelection ==
    \A p \in Requests :
        (req[p].pc = "done" /\ req[p].op = "load_data" /\ req[p].notifier = "error")
        => /\ req[p].fallback \in {None, req[p].pre.selected_job}
           /\ req[p].fallback # req[p].job_id
           /\ req[p].pre.selected_job = None => req[p].fallback = None
           /\ req[p].status_code = 500 /\ req[p].stage = "notifier"

\* C32: the retry counter stays within 0..max_retries, and no more than
\* max_retries connection attempts fail between two successful connections
\* (or since construction), also while initialize_driver and the worker run
\* the retry loop at the same time.
C32_RetryCounterBounded ==
    /\ manager.retry_count \in 0..max_retries
    /\ manager.attempts <= max_retries

\* C33: whenever the manager's connected flag is set a driver object is
\* present, so that is_connected, the result of wait_for_connection and the
\* connected field of health_check agree.
C33_InitializedImpliesDriver ==
    manager.initialized => manager.driver

\* ------------------------------------------------- overlapping submissions
\* Submissions overlap: every context creates sessions, uploads and submits,
\* a suspended load_data of one context resumes while another one is
\* suspended, and the background tasks run in between.
NextLoad ==
    \/ \E p \in Requests :
          \/ CreateSession(p)
          \/ \E sid \in SessionIds, files \in UploadLists : UploadFiles(p, sid, files)
          \/ \E sid \in SessionIds, inp \in LoadInputs : LoadData(p, sid, inp)
          \/ \E ok \in BOOLEAN : LoadDataNotified(p, ok, "ok")
          \/ LoadDataFallbackDone(p)
          \/ Return(p)
    \/ Background

SpecLoad == Init /\ [][NextLoad]_vars

\* C34: when load_data pipelines overlap, the finalize step of one is not
\* interleaved with that of another and no history record is lost: the step
\* that ends a submission with success puts its job's record in front of the
\* history list as it was, every other step leaves the list alone, and the
\* selected pointer is the job id at index 0 of the list.
C34_FinalizeNotInterleaved ==
    [][/\ \A p \in Requests :
            (req[p].op = "load_data" /\ req[p].pc = "notify"
             /\ req'[p].pc = "done" /\ req'[p].status_code = 200)
            => /\ history' = <<HistoryRecord(req[p].job_id)>> \o history
               /\ selected_job' = req[p].job_id
       /\ (\A p \in Requests :
              ~(req[p].pc = "notify" /\ req'[p].pc = "done" /\ req'[p].status_code = 200))
          => history' = history
       /\ history' # <<>> => selected_job' = history'[1].job_id]_vars

\* Two submissions overlapped and both were finalized: the one that began
\* first finished last, and its record is in front of the other's.
C34_Witness ==
    /\ Len(history) = 2
    /\ history[1].job_id = JobNames[1]
    /\ history[2].job_id = JobNames[2]
    /\ \E p \in Requests :
          /\ req[p].op = "load_data" /\ req[p].pc = "done"
          /\ req[p].status_code = 200 /\ req[p].job_id = JobNames[1]

\* C35: the read endpoints GET /history and GET /kg-info change no durable
\* state: the step that serves one of them leaves the history list, the
\* selected-job pointer and the contents of every directory of the base
\* output directory as they were.
C35_ReadEndpointsChangeNothing ==
    [][\A p \in Requests :
          (Idle(req[p]) /\ req'[p].op \in {"get_history", "get_graph_info"})
          => /\ history' = history
             /\ selected_job' = selected_job
             /\ dir_files' = dir_files
             /\ session_dirs' = session_dirs]_vars

\* C36: one upload session produces at most one successful job: two
\* load_data requests for the same session are never both answered with
\* success, also when the second began before the first finished.
C36_OneJobPerSession ==
    \A p, q \in Requests :
        (/\ p # q
         /\ req[p].op = "load_data" /\ req[p].pc = "done" /\ req[p].status_code = 200
         /\ req[q].op = "load_data" /\ req[q].pc = "done" /\ req[q].status_code = 200)
        => req[p].session_id # req[q].session_id

\* C37: while a load_data that has passed the session validation is still
\* running, the staged files of its session are on disk: neither the sweep
\* nor clear_history nor another request removes them.
C37_StagedFilesKeptWhileRunning ==
    \A p \in Requests :
        (req[p].op = "load_data" /\ InFlight(req[p]))
        => /\ req[p].session_id \in DOMAIN session_dirs
           /\ req[p].pre.session_dirs[req[p].session_id] \subseteq session_dirs[req[p].session_id]

\* ------------------------------------------- overlapping select and delete
\* Job requests overlap: context 1 submits, every context selects and
\* deletes the jobs made so far, and a handler suspended at the notifier
\* resumes while another one is suspended.
NextSelect ==
    \/ CreateSession(1)
    \/ \E sid \in SessionIds, files \in UploadLists : UploadFiles(1, sid, files)
    \/ \E sid \in SessionIds, inp \in LoadInputs : LoadData(1, sid, inp)
    \/ \E ok \in BOOLEAN : LoadDataNotified(1, ok, "ok")
    \/ LoadDataFallbackDone(1)
    \/ \E p \in Requests :
          \/ \E job_id \in JobIds : SelectJob(p, job_id)
          \/ \E ok \in BOOLEAN : SelectJobNotified(p, ok)
          \/ \E job_id \in JobIds : DeleteJob(p, job_id)
          \/ \E ok \in BOOLEAN : DeleteJobNotified(p, ok)
          \/ Return(p)

SpecSelect == Init /\ [][NextSelect]_vars

\* C38: when a select_job and a delete_job for the same job overlap, the
\* pointer does not hold that job once both have completed and the job's
\* directory is gone.
C38_NoPointerToDeletedJob ==
    \A p, q \in Requests :
        (/\ req[p].op = "select_job" /\ req[p].pc = "done"
         /\ req[q].op = "delete_job" /\ req[q].pc = "done"
         /\ req[p].job_id = req[q].job_id
         /\ ~path_exists(mtime_order, req[p].job_id))
        => selected_job # req[p].job_id

\* C39: clear_history affects only job data: every upload session that was
\* active before the call still has its entry, its file list and all of
\* its staged files on disk after the call.
C39_ClearHistoryKeepsSessions ==
    \A p \in Requests :
        (req[p].pc = "done" /\ req[p].op = "clear_history")
        => \A sid \in DOMAIN req[p].pre.sessions :
              (req[p].pre.sessions[sid].status = ACTIVE /\ sid \in DOMAIN req[p].pre.session_dirs)
              => /\ sid \in DOMAIN sessions
                 /\ sessions[sid] = req[p].pre.sessions[sid]
                 /\ sid \in DOMAIN session_dirs
                 /\ session_dirs[sid] = req[p].pre.session_dirs[sid]

\* C40: when a load_data for a neo4j job is rolled back because the
\* notifier failed after the database sync had succeeded, no data of that
\* job remains in the graph database.
C40_RollbackDeletesSubgraph ==
    \A p \in Requests :
        (/\ req[p].op = "load_data" /\ req[p].pc = "done"
         /\ req[p].writer_type = NEO4J /\ req[p].neo4j = "success"
         /\ req[p].notifier = "error")
        => ~req[p].graph_data

====
